---------------------------- MODULE Spec2Model ----------------------------
(***************************************************************************)
(* The autoregressive rollout of EncoderDecoder.forward                    *)
(* (cleartext/models/encoder_decoder.py) as a state machine.               *)
(*                                                                         *)
(* Tensors are modelled with their sequence, batch and vocabulary axes;    *)
(* a feature vector is a short tuple of integers modulo Levels (a          *)
(* quantisation of the floating point values).  Python indices are         *)
(* 0-based, TLA+ sequences 1-based: target[k] of the code is target[k+1]   *)
(* here, outputs[t] of the code is outputs[t+1] here.  The loop counter t  *)
(* keeps the code's value.  Token ids are valid ids of the embedding       *)
(* tables (0 .. vocab_size-1), as the vocabulary pipeline guarantees.      *)
(*                                                                         *)
(* Probabilities and random draws are counted in halves: teacher_forcing   *)
(* = 1 stands for 0.5, 2 for 1.0, and random.random() returns a value of   *)
(* [0, 1), here 0 (0.0) or 1 (0.5).                                        *)
(***************************************************************************)
EXTENDS Integers, Sequences, FiniteSets, TLC

\* ------------------------------------------------------------ bounds
MaxTargetLen == 3
TrgVocab == 2
Levels == 5

BatchSizes == {1, 2}
MaxTargetCells == 4
SourceLens == {1, 2}
SourceTokens == {0, 1}
\* teacher_forcing in halves: -0.5, 0, 0.5, 1, 1.5
TeacherForcingValues == {-1, 0, 1, 2, 3}
\* random.random() in halves: 0.0, 0.5
RandomValues == {0, 1}
\* initial states of the tensor library's random generator (dropout masks)
Seeds == {0, 1}

TargetTokens == 0 .. (TrgVocab - 1)

VARIABLES
    source,           \* (source_len, batch_size) token ids
    target,           \* (max_len, batch_size) token ids
    teacher_forcing,  \* the probability argument, in halves
    rng,              \* state of the generator the dropout masks come from
    pc,               \* position in forward
    batch_size, max_len,
    enc_outputs,      \* encoder outputs (source_len, batch_size, 2)
    state,            \* decoder state (batch_size,)
    outputs,          \* (max_len, batch_size, vocab)
    out,              \* previous token (batch_size,) or logits (batch_size, vocab)
    context,          \* context of the current step
    t,                \* loop counter of line 104
    \* history of the calls made so far
    enc_calls,        \* results of the encoder calls
    attn_calls,       \* arguments and result of each _compute_context call
    dec_calls,        \* arguments and results of each decoder call
    written,          \* positions of outputs assigned, in order (code's index)
    draws,            \* values random.random() returned, in order
    forced,           \* teacher_force of each step, in order
    \* the second call of a pair of calls run in lockstep
    target2, state2, outputs2, out2, context2

mainVars == <<source, target, teacher_forcing, rng, pc, batch_size, max_len,
              enc_outputs, state, outputs, out, context, t,
              enc_calls, attn_calls, dec_calls, written, draws, forced>>
pairVars == <<target2, state2, outputs2, out2, context2>>
vars == <<mainVars, pairVars>>

\* ------------------------------------------------------------ helpers
Reverse(s) == [i \in 1 .. Len(s) |-> s[Len(s) + 1 - i]]

RECURSIVE SumTo(_, _)
SumTo(f, n) == IF n = 0 THEN 0 ELSE f[n] + SumTo(f, n - 1)

RECURSIVE Pow2(_)
Pow2(n) == IF n = 0 THEN 1 ELSE 2 * Pow2(n - 1)

\* nn.Dropout: mask 0 keeps every feature, mask k zeroes feature k
Dropout(v, mask) == [i \in 1 .. Len(v) |-> IF i = mask THEN 0 ELSE v[i]]

\* the mask the generator yields, and the generator's next state
MaskOf(r) == r % 2
NextRng(r) == (3 * r + 1) % 7

\* nn.Embedding.from_pretrained: a frozen table lookup
Embedding(tok) == tok + 1

\* one step of a gated recurrent cell
GRUCell(x, h) == (2 * h + x + 1) % Levels

RECURSIVE RunGRU(_, _)
RunGRU(xs, h) ==
    IF xs = <<>> THEN <<>>
    ELSE LET h1 == GRUCell(Head(xs), h) IN <<h1>> \o RunGRU(Tail(xs), h1)

\* ------------------------------------------------------------ Encoder
\* Encoder.forward: returns [outputs, state]
EncoderForward(src, bs, mask) ==
    LET n == Len(src)
        embedded(b) == [i \in 1 .. n |-> Embedding(src[i][b])]
        fwd(b) == RunGRU(embedded(b), 0)
        bwd(b) == Reverse(RunGRU(Reverse(embedded(b)), 0))
        combined(b) == Dropout(<<fwd(b)[n], bwd(b)[1]>>, mask)
    IN  [outputs |-> [i \in 1 .. n |-> [b \in 1 .. bs |-> <<fwd(b)[i], bwd(b)[i]>>]],
         state   |-> [b \in 1 .. bs |-> (combined(b)[1] + 2 * combined(b)[2] + 1) % Levels]]

\* ------------------------------------------------------------ Attention
\* Attention.forward: weights (batch_size, source_len), in units of 1/16
AttentionForward(dec_state, enc_out) ==
    LET n == Len(enc_out)
        score(b, i) == (dec_state[b] * (enc_out[i][b][1] + 1) + enc_out[i][b][2]) % Levels
        e(b) == [i \in 1 .. n |-> Pow2(score(b, i))]
    IN  [b \in DOMAIN dec_state |->
            [i \in 1 .. n |-> (16 * e(b)[i]) \div SumTo(e(b), n)]]

\* EncoderDecoder._compute_context: (batch_size, 2), weights bmm enc_outputs
ComputeContext(dec_state, enc_out) ==
    LET n == Len(enc_out)
        weights == AttentionForward(dec_state, enc_out)
        mix(b, k) == SumTo([i \in 1 .. n |-> weights[b][i] * enc_out[i][b][k]], n) \div 16
    IN  [b \in DOMAIN dec_state |-> <<mix(b, 1), mix(b, 2)>>]

\* ------------------------------------------------------------ Decoder
\* Decoder.forward: returns [logits, state]
DecoderForward(token, dec_state, ctx, mask) ==
    LET embedded(b) == Embedding(token[b])
        new(b) == GRUCell(embedded(b) + ctx[b][1] + 2 * ctx[b][2], dec_state[b])
        combined(b) == Dropout(<<new(b), ctx[b][1] + ctx[b][2], embedded(b)>>, mask)
        total(b) == combined(b)[1] + combined(b)[2] + combined(b)[3]
    IN  [logits |-> [b \in DOMAIN token |->
                        [v \in TargetTokens |-> ((v + 1) * total(b) + v) % Levels]],
         state  |-> [b \in DOMAIN token |-> new(b)]]

\* out.max(1)[1]: per batch element, the first index of the largest logit
ArgMax(logits) ==
    [b \in DOMAIN logits |->
        CHOOSE v \in TargetTokens :
            /\ \A w \in TargetTokens : logits[b][w] <= logits[b][v]
            /\ \A w \in TargetTokens : logits[b][w] = logits[b][v] => v <= w]


\* ------------------------------------------------------------ EncoderDecoder.forward
\* mutants of InRange: the loop stops one step early, or runs one step more
InRangeShort(tt, n) == tt < n - 1
InRangeLong(tt, n) == tt <= n

\* range(1, max_len): whether the loop body runs for counter tt
InRange(tt, n) == tt < n

\* torch.zeros(max_len, batch_size, target_vocab_size)
ZeroOutputs(n, bs) == [i \in 1 .. n |-> [b \in 1 .. bs |-> [v \in TargetTokens |-> 0]]]

\* mutant of SeedToken: target[-1, :]
SeedTokenLast(trg) == trg[Len(trg)]

\* target[0, :]
SeedToken(trg) == trg[1]

\* mutant of StoreLogits: outputs[t - 1] = out
StoreLogitsOffByOne(outs, tt, logits) == [outs EXCEPT ![tt] = logits]

\* outputs[t] = out
StoreLogits(outs, tt, logits) == [outs EXCEPT ![tt + 1] = logits]

\* mutant of TeacherForce: random.random() <= teacher_forcing
TeacherForceInclusive(r, tf) == r <= tf

\* random.random() < teacher_forcing
TeacherForce(r, tf) == r < tf

\* mutants of NextToken: target[t - 1] when forced; the branches swapped
NextTokenPrevTarget(teacher_force, trg, tt, logits) ==
    IF teacher_force THEN trg[tt] ELSE ArgMax(logits)
NextTokenSwapped(teacher_force, trg, tt, logits) ==
    IF teacher_force THEN ArgMax(logits) ELSE trg[tt + 1]

\* target[t] if teacher_force else out.max(1)[1]
NextToken(teacher_force, trg, tt, logits) ==
    IF teacher_force THEN trg[tt + 1] ELSE ArgMax(logits)

Shapes ==
    {sh \in BatchSizes \X (0 .. MaxTargetLen) : sh[1] * sh[2] <= MaxTargetCells}

InitRun ==
    /\ \E sh \in Shapes : \E sl \in SourceLens :
          /\ source \in [1 .. sl -> [1 .. sh[1] -> SourceTokens]]
          /\ target \in [1 .. sh[2] -> [1 .. sh[1] -> TargetTokens]]
    /\ teacher_forcing \in TeacherForcingValues
    /\ rng \in Seeds
    /\ pc = "start"
    /\ batch_size = 0 /\ max_len = 0 /\ t = 0
    /\ enc_outputs = <<>> /\ state = <<>> /\ outputs = <<>>
    /\ out = <<>> /\ context = <<>>
    /\ enc_calls = <<>> /\ attn_calls = <<>> /\ dec_calls = <<>>
    /\ written = <<>> /\ draws = <<>> /\ forced = <<>>

\* lines 98-100
Encode ==
    /\ pc = "start"
    /\ LET bs == Len(source[1])
           res == EncoderForward(source, bs, MaskOf(rng))
       IN  /\ batch_size' = bs
           /\ max_len' = Len(target)
           /\ enc_outputs' = res.outputs
           /\ state' = res.state
           /\ enc_calls' = Append(enc_calls, res)
    /\ rng' = NextRng(rng)
    /\ pc' = "init"
    /\ UNCHANGED <<source, target, teacher_forcing, outputs, out, context, t,
                   attn_calls, dec_calls, written, draws, forced>>

\* lines 102-103; target[0, :] of an empty target raises IndexError
InitOutputs ==
    /\ pc = "init"
    /\ outputs' = ZeroOutputs(max_len, batch_size)
    /\ \/ /\ max_len = 0
          /\ pc' = "error"
          /\ UNCHANGED <<out, t>>
       \/ /\ max_len > 0
          /\ out' = SeedToken(target)
          /\ t' = 1
          /\ pc' = "loop"
    /\ UNCHANGED <<source, target, teacher_forcing, rng, batch_size, max_len,
                   enc_outputs, state, context,
                   enc_calls, attn_calls, dec_calls, written, draws, forced>>

\* mutant of Context: the context is computed at the first step and reused
ContextHoisted ==
    /\ pc = "loop"
    /\ InRange(t, max_len)
    /\ IF t = 1
       THEN /\ context' = ComputeContext(state, enc_outputs)
            /\ attn_calls' = Append(attn_calls,
                   [step |-> t, dec_state |-> state, enc_outputs |-> enc_outputs,
                    context |-> context'])
       ELSE UNCHANGED <<context, attn_calls>>
    /\ pc' = "decode"
    /\ UNCHANGED <<source, target, teacher_forcing, rng, batch_size, max_len,
                   enc_outputs, state, outputs, out, t,
                   enc_calls, dec_calls, written, draws, forced>>

\* line 105
Context ==
    /\ pc = "loop"
    /\ InRange(t, max_len)
    /\ context' = ComputeContext(state, enc_outputs)
    /\ attn_calls' = Append(attn_calls,
           [step |-> t, dec_state |-> state, enc_outputs |-> enc_outputs,
            context |-> context'])
    /\ pc' = "decode"
    /\ UNCHANGED <<source, target, teacher_forcing, rng, batch_size, max_len,
                   enc_outputs, state, outputs, out, t,
                   enc_calls, dec_calls, written, draws, forced>>

\* line 106
Decode ==
    /\ pc = "decode"
    /\ LET res == DecoderForward(out, state, context, MaskOf(rng))
       IN  /\ out' = res.logits
           /\ state' = res.state
           /\ dec_calls' = Append(dec_calls,
                  [step |-> t, token |-> out, dec_state |-> state,
                   context |-> context, logits |-> res.logits,
                   state |-> res.state, draws_before |-> Len(draws)])
    /\ rng' = NextRng(rng)
    /\ pc' = "store"
    /\ UNCHANGED <<source, target, teacher_forcing, batch_size, max_len,
                   enc_outputs, outputs, context, t,
                   enc_calls, attn_calls, written, draws, forced>>

\* line 107
Store ==
    /\ pc = "store"
    /\ outputs' = StoreLogits(outputs, t, out)
    /\ written' = Append(written, t)
    /\ pc' = "force"
    /\ UNCHANGED <<source, target, teacher_forcing, rng, batch_size, max_len,
                   enc_outputs, state, out, context, t,
                   enc_calls, attn_calls, dec_calls, draws, forced>>

\* lines 108-109, and the loop's next counter value
Force(r) ==
    /\ pc = "force"
    /\ LET teacher_force == TeacherForce(r, teacher_forcing)
       IN  /\ out' = NextToken(teacher_force, target, t, out)
           /\ forced' = Append(forced, teacher_force)
    /\ draws' = Append(draws, r)
    /\ t' = t + 1
    /\ pc' = "loop"
    /\ UNCHANGED <<source, target, teacher_forcing, rng, batch_size, max_len,
                   enc_outputs, state, outputs, context,
                   enc_calls, attn_calls, dec_calls, written>>

\* line 111
Return ==
    /\ pc = "loop"
    /\ ~InRange(t, max_len)
    /\ pc' = "done"
    /\ UNCHANGED <<source, target, teacher_forcing, rng, batch_size, max_len,
                   enc_outputs, state, outputs, out, context, t,
                   enc_calls, attn_calls, dec_calls, written, draws, forced>>

Init ==
    /\ InitRun
    /\ target2 = <<>> /\ state2 = <<>> /\ outputs2 = <<>>
    /\ out2 = <<>> /\ context2 = <<>>

Next ==
    \/ Encode /\ UNCHANGED pairVars
    \/ InitOutputs /\ UNCHANGED pairVars
    \/ Context /\ UNCHANGED pairVars
    \/ Decode /\ UNCHANGED pairVars
    \/ Store /\ UNCHANGED pairVars
    \/ (\E r \in RandomValues : Force(r)) /\ UNCHANGED pairVars
    \/ Return /\ UNCHANGED pairVars

Spec == Init /\ [][Next]_vars

\* forward is sequential code: a step that can be taken is taken.  The
\* dropout generator starts from one seed here; it does not steer the loop.
InitFair == Init /\ rng = 0

FairSpec == InitFair /\ [][Next]_vars /\ WF_vars(Next)

\* ------------------------------------------------------------ two calls in lockstep
\* A second call forward(source, target2, teacher_forcing) with the same
\* parameters, the same dropout masks and the same random.random() values,
\* taken step by step with the first; teacher_forcing is 0 (inference).
\* target2 has the shape of target and differs from it in at most one row.
InitPair ==
    /\ InitRun
    /\ teacher_forcing = 0
    /\ target2 \in {x \in [DOMAIN target -> [1 .. Len(source[1]) -> TargetTokens]] :
                       Cardinality({i \in DOMAIN target : x[i] # target[i]}) <= 1}
    /\ state2 = <<>> /\ outputs2 = <<>> /\ out2 = <<>> /\ context2 = <<>>

Encode2 ==
    /\ state2' = EncoderForward(source, Len(source[1]), MaskOf(rng)).state
    /\ UNCHANGED <<target2, outputs2, out2, context2>>

InitOutputs2 ==
    /\ outputs2' = ZeroOutputs(max_len, batch_size)
    /\ out2' = IF max_len = 0 THEN out2 ELSE SeedToken(target2)
    /\ UNCHANGED <<target2, state2, context2>>

Context2 ==
    /\ context2' = ComputeContext(state2, enc_outputs)
    /\ UNCHANGED <<target2, state2, outputs2, out2>>

Decode2 ==
    /\ LET res == DecoderForward(out2, state2, context2, MaskOf(rng))
       IN  out2' = res.logits /\ state2' = res.state
    /\ UNCHANGED <<target2, outputs2, context2>>

Store2 ==
    /\ outputs2' = StoreLogits(outputs2, t, out2)
    /\ UNCHANGED <<target2, state2, out2, context2>>

Force2(r) ==
    /\ out2' = NextToken(TeacherForce(r, teacher_forcing), target2, t, out2)
    /\ UNCHANGED <<target2, state2, outputs2, context2>>

NextPair ==
    \/ Encode /\ Encode2
    \/ InitOutputs /\ InitOutputs2
    \/ Context /\ Context2
    \/ Decode /\ Decode2
    \/ Store /\ Store2
    \/ \E r \in RandomValues : Force(r) /\ Force2(r)
    \/ Return /\ UNCHANGED pairVars

SpecPair == InitPair /\ [][NextPair]_vars

\* ------------------------------------------------------------ properties
ZeroRow == [b \in 1 .. batch_size |-> [v \in TargetTokens |-> 0]]
Allocated == pc \in {"loop", "decode", "store", "force", "done"}

\* C1: position 0 of the output tensor is all zeros in every state of the
\* rollout and in the returned tensor, and no decode step writes to it.
C1_PositionZeroStaysZero ==
    Allocated =>
        /\ outputs[1] = ZeroRow
        /\ \A k \in 1 .. Len(written) : written[k] # 0

C1_Witness ==
    /\ pc = "done"
    /\ Len(written) >= 2
    /\ \E i \in 2 .. Len(outputs) : outputs[i] # ZeroRow
    /\ \E b \in 1 .. batch_size : target[1][b] # 0

\* C2: with teacher forcing probability 1 the token fed to the decoder at
\* step k is target[k-1] (here target[k]), for k = 1 .. target_len-1.
C2_TeacherForcedFeedsShiftedTarget ==
    teacher_forcing = 2 =>
        /\ \A k \in 1 .. Len(dec_calls) :
              dec_calls[k].step = k /\ dec_calls[k].token = target[k]
        /\ pc = "done" => Len(dec_calls) = max_len - 1

C2_Witness ==
    /\ pc = "done"
    /\ teacher_forcing = 2
    /\ Len(dec_calls) >= 2
    /\ \E k \in 2 .. Len(dec_calls) : target[k] # ArgMax(dec_calls[k - 1].logits)
    /\ \E k \in 1 .. Len(draws) : draws[k] = 1

\* C3: with teacher forcing probability 0 the token fed at each step k >= 2
\* is the arg-max of the logits stored at output position k-1, chosen by a
\* step that was not teacher forced.
C3_FreeRunningFeedsArgMax ==
    teacher_forcing = 0 =>
        \A k \in 2 .. Len(dec_calls) :
            /\ dec_calls[k].token = ArgMax(outputs[k])
            /\ forced[k - 1] = FALSE

C3_Witness ==
    /\ pc = "done"
    /\ teacher_forcing = 0
    /\ Len(dec_calls) >= 2
    /\ \E k \in 2 .. Len(dec_calls) : dec_calls[k].token # target[k]
    /\ \E k \in 1 .. Len(draws) : draws[k] = 0

\* C4 as stated: at inference the returned tensor is the same for any two
\* targets of equal shape, whatever their contents.
C4_TargetContentsIgnored ==
    (pc = "done" /\ teacher_forcing = 0) => outputs2 = outputs

\* C4 as amended: at inference two targets of equal shape that have the
\* same first row (the start tokens) give the same returned tensor.
C4_TargetIgnoredBeyondFirstRow ==
    (pc = "done" /\ teacher_forcing = 0 /\ target2[1] = target[1])
        => outputs2 = outputs

C4_Witness ==
    /\ pc = "done"
    /\ teacher_forcing = 0
    /\ max_len >= 3
    /\ target2[1] = target[1]
    /\ target2 # target
    /\ outputs2 = outputs
    /\ \E i \in 2 .. Len(outputs) : outputs[i] # ZeroRow

\* C5: the token fed at step 1 is target[0] (here target[1]) for every
\* probability and every draw, and no draw precedes the first decoder step.
C5_FirstTokenIsTargetStart ==
    /\ (pc = "loop" /\ t = 1) => out = target[1]
    /\ Len(dec_calls) >= 1 =>
          /\ dec_calls[1].token = target[1]
          /\ dec_calls[1].draws_before = 0
    /\ dec_calls = <<>> => draws = <<>>

C5_Witness ==
    /\ Len(dec_calls) >= 1
    /\ teacher_forcing = 0
    /\ max_len >= 2
    /\ target[1] # target[max_len]
    /\ target[1] # [b \in 1 .. batch_size |-> 0]

\* What forward has done when it returns: the decoder steps 1, 2, ..,
\* target_len-1 in this order, the logits of step k at output position k
\* and nowhere else, every position 1 .. target_len-1 written once, and a
\* tensor of target_len x batch_size x vocabulary.
C6_Returned ==
    /\ Len(dec_calls) = max_len - 1
    /\ written = [k \in 1 .. max_len - 1 |-> k]
    /\ \A k \in 1 .. Len(dec_calls) :
          dec_calls[k].step = k /\ outputs[k + 1] = dec_calls[k].logits
    /\ outputs[1] = ZeroRow
    /\ Len(outputs) = Len(target)
    /\ \A i \in 1 .. Len(outputs) :
          /\ DOMAIN outputs[i] = 1 .. Len(source[1])
          /\ \A b \in DOMAIN outputs[i] : DOMAIN outputs[i][b] = TargetTokens

\* C6: every call ends (returns, or raises on an empty target); a call with
\* a target of length >= 1 never raises, and what it returns is C6_Returned.
C6_TerminatesAfterEveryStep ==
    /\ <>(pc \in {"done", "error"})
    /\ [](Len(target) >= 1 => pc # "error")
    /\ [](pc = "done" => C6_Returned)

C6_Witness ==
    /\ pc = "done"
    /\ max_len = MaxTargetLen
    /\ written = [k \in 1 .. max_len - 1 |-> k]
    /\ outputs[2] # outputs[3]

\* C7: for a target of length 1 forward computes no attention, takes no
\* decoder step, draws nothing, does not raise, and returns one all-zero
\* position.
C7_LengthOneTarget ==
    Len(target) = 1 =>
        /\ pc # "error"
        /\ pc \in {"start", "init", "loop", "done"}
        /\ attn_calls = <<>> /\ dec_calls = <<>> /\ draws = <<>>
        /\ Allocated => outputs = <<ZeroRow>>

C7_Witness ==
    /\ pc = "done"
    /\ Len(target) = 1
    /\ batch_size = 2
    /\ teacher_forcing = 1
    /\ outputs = <<ZeroRow>>

\* C8: a call with a teacher forcing probability outside [0, 1] takes no
\* decoder step and returns no tensor.
C8_InvalidProbabilityRejected ==
    (teacher_forcing < 0 \/ teacher_forcing > 2) =>
        (dec_calls = <<>> /\ pc # "done")

\* C9: the encoder runs once; the context of step k is computed from the
\* encoder outputs and from the encoder's projected state (k = 1) or the
\* state the decoder returned at step k-1 (k >= 2); decoder step k takes
\* that state and the context computed in step k.
C9_ContextFromCurrentState ==
    /\ Len(enc_calls) = (IF pc = "start" THEN 0 ELSE 1)
    /\ Len(attn_calls) = Len(dec_calls) + (IF pc = "decode" THEN 1 ELSE 0)
    /\ \A k \in 1 .. Len(attn_calls) :
          /\ attn_calls[k].step = k
          /\ attn_calls[k].enc_outputs = enc_calls[1].outputs
          /\ attn_calls[k].dec_state =
                (IF k = 1 THEN enc_calls[1].state ELSE dec_calls[k - 1].state)
    /\ \A k \in 1 .. Len(dec_calls) :
          /\ dec_calls[k].step = k
          /\ dec_calls[k].dec_state = attn_calls[k].dec_state
          /\ dec_calls[k].context = attn_calls[k].context

C9_Witness ==
    /\ pc = "done"
    /\ Len(dec_calls) >= 2
    /\ attn_calls[2].context # attn_calls[1].context
    /\ attn_calls[2].dec_state # attn_calls[1].dec_state
    /\ Len(source) = 2

\* C10: one draw per decode step, made after the step's logits are stored;
\* the token fed at step k+1 is target[k] when the draw of step k is below
\* the probability and the arg-max of step k's logits otherwise.
C10_FreshDrawPerStep ==
    /\ Len(forced) = Len(draws)
    /\ Len(draws) = Len(written) - (IF pc = "force" THEN 1 ELSE 0)
    /\ \A k \in 1 .. Len(dec_calls) : dec_calls[k].draws_before = k - 1
    /\ \A k \in 1 .. Len(forced) : forced[k] = (draws[k] < teacher_forcing)
    /\ \A k \in 1 .. Len(dec_calls) - 1 :
          dec_calls[k + 1].token =
              (IF forced[k] THEN target[k + 1] ELSE ArgMax(outputs[k + 1]))

C10_Witness ==
    /\ pc = "done"
    /\ teacher_forcing = 1
    /\ forced = <<FALSE, TRUE>>
    /\ target[2] # ArgMax(outputs[2])
    /\ target[3] # ArgMax(outputs[3])

=============================================================================
